---------------------------- MODULE Spec2Model ----------------------------
(***************************************************************************)
(* Model of github.com/containerd/plugin, file plugin.go: the Registry     *)
(* (a Go slice of *Registration), Registry.Register and Registry.Graph     *)
(* with its recursive helper children; and of the lookups that InitContext *)
(* offers on a PluginSet, whose source is not in plugin.go and which are   *)
(* modelled from their specification.                                      *)
(*                                                                         *)
(* A *Registration is modelled by the value it points to; the model never  *)
(* mutates a Registration, so two pointers are equal exactly when the      *)
(* records are.  A Registry is a Go slice: a header (array, len, cap) over *)
(* a backing array that lives in heap.  A panic is the value the caller    *)
(* recovers (as the repository's tests do), kept in the variable panic     *)
(* until the next call.                                                    *)
(***************************************************************************)
EXTENDS Naturals, Sequences, FiniteSets, TLC

VARIABLES
    heap,     \* the backing arrays of every slice made so far
    held,     \* the Registry values (slice headers) the callers hold, oldest first
    born,     \* history: for each held Registry, its entries when Register returned it
    call,     \* history: the receiver and argument of the observed Register call
    panic,    \* the panic raised by the most recent call, NoPanic if it returned
    g,        \* the running Graph call: its arguments, locals and call stack
    mem,      \* the slices the running Graph call made: ordered and stack
    prev,     \* history: arguments and outcome of the first Graph call
    plugins,  \* the PluginSet: the Plugins added so far, in the order of Add
    lookup    \* the most recent call on the PluginSet and what it returned

vars == <<heap, held, born, call, panic, g, mem, prev, plugins, lookup>>

----------------------------------------------------------------------------
(* Bounds and input sets *)

\* longest Registry the callers of Spec build
MaxRegs == 3

\* longest Registry on which the callers of SpecReg call Register
MaxObserved == 1

\* longest Registry on which the callers of SpecAppend call Register: its
\* array has room for one more entry, so append writes in place
MaxAppend == 3

\* longest Registry the callers of SpecTwice build: a Registry of one entry
\* less has an array with room for one more
MaxTwice == 4

\* number of Registry values the callers of SpecAlias hold
MaxHeld == 6

Wildcard == "*"

\* the Types and IDs the callers use, in the order in which they take them
TypeNames == <<"t1", "t2", "t3">>

IDNames == <<"a", "b">>

Types == {TypeNames[i] : i \in 1..Len(TypeNames)}

IDs == {IDNames[i] : i \in 1..Len(IDNames)}

ReqEntries == Types \cup {Wildcard}

\* the Requires lists offered to Register: the empty list, every list of one
\* entry, every list of two different entries, and the wildcard twice
ReqLists ==
    {<<>>} \cup {<<s>> : s \in ReqEntries}
           \cup {p \in {<<s, t>> : s, t \in ReqEntries} : p[1] # p[2]}
           \cup {<<Wildcard, Wildcard>>}

\* the Registrations offered to Register, empty Type and empty ID included
Candidates == [Type : Types \cup {""}, ID : IDs \cup {""}, Requires : ReqLists]

\* the Registrations offered to Register by the callers of SpecAlias
AliasCandidates == [Type : Types, ID : IDs, Requires : {<<>>}]

\* the Registrations offered to Register by the callers of SpecAppend: six
\* that can follow each other in one Registry, and with them Registrations
\* without a Type and Registrations that require their own Type
AppendCandidates ==
    [Type : Types \cup {""}, ID : IDs, Requires : {<<>>, <<TypeNames[1]>>}]

\* the Registrations offered to Register by the callers of SpecTwice: of two
\* Types, requiring nothing, one Type or every other Registration
TwiceCandidates ==
    [Type : {TypeNames[1], TypeNames[2]}, ID : IDs,
     Requires : {<<>>, <<TypeNames[1]>>, <<TypeNames[2]>>, <<Wildcard>>}]

\* Types and IDs with a "." in them, as in io.containerd.grpc.v1
DottedTypes == {"t1", "t1.a"}

DottedIDs == {"a", "a.a"}

\* the Registrations offered to Register by the callers of SpecURI
DottedCandidates ==
    [Type : DottedTypes, ID : DottedIDs, Requires : {<<>>, <<Wildcard>>}]

\* number of Registry values the callers of SpecFork hold
MaxFork == 9

\* how far behind the newest Registry the callers of SpecFork call Register
MaxBack == 2

\* the IDs the callers of SpecFork use, in the order in which they take them
ForkIDNames == <<"a", "b", "c", "d", "e", "f", "g">>

\* the Registrations offered to Register by the callers of SpecFork
ForkCandidates ==
    [Type : {TypeNames[1]}, ID : {ForkIDNames[k] : k \in 1..Len(ForkIDNames)},
     Requires : {<<>>}]

----------------------------------------------------------------------------
(* Errors *)

ErrNoType == "plugin: no type"

ErrNoPluginID == "plugin: no id"

ErrIDRegistered == "plugin: id already registered"

ErrSkipPlugin == "skip plugin"

ErrPluginInitialized == "plugin: already initialized"

ErrPluginNotFound == "plugin: not found"

ErrPluginMultipleInstances == "plugin: multiple instances"

ErrPluginCircularDependency == "plugin: dependency loop detected"

ErrInvalidRequires == "invalid requires"

\* IsSkipPlugin with every error taken as a skip
IsSkipPluginAnyError(err) == err # ""

\* IsSkipPlugin with no error taken as a skip
IsSkipPluginNever(err) == FALSE

\* IsSkipPlugin: the error is ErrSkipPlugin
IsSkipPlugin(err) == err = ErrSkipPlugin

\* a recovered panic: the sentinel error it wraps and the text put before it
Panic(err, context) == [err |-> err, context |-> context]

NoPanic == Panic("", "")

----------------------------------------------------------------------------
(* Registration *)

URI(r) == r.Type \o "." \o r.ID

\* the zero value of an array slot that append has not written
NilReg == [Type |-> "<nil>", ID |-> "<nil>", Requires |-> <<>>]

----------------------------------------------------------------------------
(* Go slices of *Registration *)

\* the nil slice, the zero value of Registry
NilSlice == [arr |-> 0, len |-> 0, cap |-> 0]

\* the entries of slice s, read from the arrays h
View(h, s) == [i \in 1..s.len |-> h[s.arr][i]]

\* capacity of the array append allocates when newLen exceeds oldCap: the Go
\* runtime doubles a small slice, and for pointer elements the doubled size
\* is a size class of the allocator, so nothing is added to it
GrowCap(oldCap, newLen) ==
    IF newLen > 2 * oldCap THEN newLen ELSE 2 * oldCap

AppendInPlace(h, s, r) ==
    [heap |-> [h EXCEPT ![s.arr][s.len + 1] = r],
     slice |-> [arr |-> s.arr, len |-> s.len + 1, cap |-> s.cap]]

\* AppendRealloc with the new entry put first
AppendReallocFront(h, s, r) ==
    LET newCap == GrowCap(s.cap, s.len + 1)
        array == [i \in 1..newCap |->
                     IF i = 1 THEN r
                     ELSE IF i <= s.len + 1 THEN h[s.arr][i - 1]
                     ELSE NilReg]
    IN  [heap |-> Append(h, array),
         slice |-> [arr |-> Len(h) + 1, len |-> s.len + 1, cap |-> newCap]]

\* append(s, r) when s has no spare capacity: a new array of the grown
\* capacity takes the entries of s and then r
AppendRealloc(h, s, r) ==
    LET newCap == GrowCap(s.cap, s.len + 1)
        array == [i \in 1..newCap |->
                     IF i <= s.len THEN h[s.arr][i]
                     ELSE IF i = s.len + 1 THEN r
                     ELSE NilReg]
    IN  [heap |-> Append(h, array),
         slice |-> [arr |-> Len(h) + 1, len |-> s.len + 1, cap |-> newCap]]

\* append(s, r): writes into the spare capacity of s's own array when there
\* is any, and only otherwise copies into a new array
GoAppend(h, s, r) ==
    IF s.len < s.cap THEN AppendInPlace(h, s, r) ELSE AppendRealloc(h, s, r)

----------------------------------------------------------------------------
(* Registry.Register *)

\* checkUnique: the error for the first entry with r's Type and ID, or none
checkUnique(registry, r) ==
    IF \E i \in 1..Len(registry) :
           r.Type = registry[i].Type /\ r.ID = registry[i].ID
    THEN Panic(ErrIDRegistered, URI(r))
    ELSE NoPanic

\* RequiresInvalid with the loop left after its first entry
RequiresInvalidFirst(r) ==
    /\ Len(r.Requires) > 0
    /\ \/ r.Requires[1] = Wildcard /\ Len(r.Requires) # 1
       \/ r.Requires[1] = r.Type

\* the loop over r.Requires: whether some entry makes Register panic
RequiresInvalid(r) ==
    \E i \in 1..Len(r.Requires) :
        \/ r.Requires[i] = Wildcard /\ Len(r.Requires) # 1
        \/ r.Requires[i] = r.Type

\* RegisterPanic with the ID looked at before the Type
RegisterPanicIDFirst(registry, r) ==
    IF r.ID = "" THEN Panic(ErrNoPluginID, "")
    ELSE IF r.Type = "" THEN Panic(ErrNoType, "")
    ELSE IF checkUnique(registry, r) # NoPanic THEN checkUnique(registry, r)
    ELSE IF RequiresInvalid(r) THEN Panic(ErrInvalidRequires, "")
    ELSE NoPanic

\* the panic value of registry.Register(r), NoPanic when it returns
RegisterPanic(registry, r) ==
    IF r.Type = "" THEN Panic(ErrNoType, "")
    ELSE IF r.ID = "" THEN Panic(ErrNoPluginID, "")
    ELSE IF checkUnique(registry, r) # NoPanic THEN checkUnique(registry, r)
    ELSE IF RequiresInvalid(r) THEN Panic(ErrInvalidRequires, "")
    ELSE NoPanic

\* held[i].Register(r): on success the returned Registry is held as well
Register(i, r) ==
    LET registry == View(heap, held[i])
        p == RegisterPanic(registry, r)
        res == GoAppend(heap, held[i], r)
    IN  /\ g.pc = "idle"
        /\ panic' = p
        /\ IF p = NoPanic
           THEN /\ heap' = res.heap
                /\ held' = Append(held, res.slice)
                /\ born' = Append(born, View(res.heap, res.slice))
           ELSE UNCHANGED <<heap, held, born>>
        /\ UNCHANGED <<g, mem, prev, plugins, lookup>>

----------------------------------------------------------------------------
(* Registry.Graph and children *)

Range(seq) == {seq[i] : i \in 1..Len(seq)}

\* a DisableFilter is modelled by the set of Registrations it returns true
\* for; a nil filter disables nothing, like the empty set
Filters(registry) == SUBSET Range(registry)

\* no Graph call is running
Idle ==
    [pc |-> "idle", registry |-> NilSlice, disabled |-> {}, handled |-> {},
     ordered |-> <<>>, stack |-> <<>>, frames |-> <<>>, gi |-> 0,
     err |-> NoPanic]

\* InitHandled with the filter never asked
InitHandledNone(registry, disabled) == {}

\* the handled map after the filter loop: the disabled entries
InitHandled(registry, disabled) == {r \in Range(registry) : r \in disabled}

\* Graph up to its loop over the registry: handled holds the disabled
\* entries, ordered and stack are empty
GraphInit(h, s, disabled) ==
    [pc |-> "run", registry |-> s, disabled |-> disabled,
     handled |-> InitHandled(View(h, s), disabled),
     ordered |-> <<>>, stack |-> <<>>, frames |-> <<>>, gi |-> 1,
     err |-> NoPanic]

\* NextRoot with the entries taken from the end of the registry
NextRootLast(gs, registry) ==
    LET open == {i \in gs.gi..Len(registry) : registry[i] \notin gs.handled}
    IN  IF open = {} THEN 0 ELSE CHOOSE i \in open : \A j \in open : i >= j

\* Graph's loop: the next entry at or after gi that is not handled, 0 if none
NextRoot(gs, registry) ==
    LET open == {i \in gs.gi..Len(registry) : registry[i] \notin gs.handled}
    IN  IF open = {} THEN 0 ELSE CHOOSE i \in open : \A j \in open : i <= j

\* the two nested loops of children are numbered as one: iteration k reads
\* reg.Requires[ReqIndex(k, n)] and registry[RegIndex(k, n)]
ReqIndex(k, n) == ((k - 1) \div n) + 1

RegIndex(k, n) == ((k - 1) % n) + 1

\* Matches without the comparison of Types
MatchesWildcardOnly(t, r, reg) == t = Wildcard /\ r # reg

\* Matches without the wildcard
MatchesTypeOnly(t, r, reg) == r.Type = t /\ r # reg

\* Matches with every requirement taken as the wildcard
MatchesAnyType(t, r, reg) == r # reg

\* Matches without the test that r is another Registration than reg
MatchesSelf(t, r, reg) == t = Wildcard \/ r.Type = t

\* the condition of children's inner loop: r is a dependency of reg through t
Matches(t, r, reg) == (t = Wildcard \/ r.Type = t) /\ r # reg

\* NextChild with the loops run from their end
NextChildLast(gs, registry) ==
    LET n == Len(registry)
        reg == gs.stack[Len(gs.stack)]
        from == gs.frames[Len(gs.frames)]
        open == {k \in from..(Len(reg.Requires) * n) :
                    /\ Matches(reg.Requires[ReqIndex(k, n)],
                               registry[RegIndex(k, n)], reg)
                    /\ registry[RegIndex(k, n)] \notin gs.handled}
    IN  IF open = {} THEN 0 ELSE CHOOSE k \in open : \A j \in open : k >= j

\* children's loops: the next iteration at or after the frame's own in which
\* a matching entry is not handled, 0 if the loops run out
NextChild(gs, registry) ==
    LET n == Len(registry)
        reg == gs.stack[Len(gs.stack)]
        from == gs.frames[Len(gs.frames)]
        open == {k \in from..(Len(reg.Requires) * n) :
                    /\ Matches(reg.Requires[ReqIndex(k, n)],
                               registry[RegIndex(k, n)], reg)
                    /\ registry[RegIndex(k, n)] \notin gs.handled}
    IN  IF open = {} THEN 0 ELSE CHOOSE k \in open : \A j \in open : k <= j

\* OnStack with the entry below the last left out as well
OnStackShort(stack, r) == \E i \in 1..(Len(stack) - 2) : stack[i] = r

\* "Ensure not in current stack": r is on the stack below its last entry
OnStack(stack, r) == \E i \in 1..(Len(stack) - 1) : stack[i] = r

\* Graph calls children(append(stack, r), ...) for the entry at index i
VisitRoot(gs, registry, i) ==
    [gs EXCEPT !.gi = i, !.stack = <<registry[i]>>, !.frames = <<1>>]

\* children calls itself for the entry r found in iteration k
Descend(gs, r, k) ==
    [gs EXCEPT !.stack = Append(gs.stack, r),
               !.frames = Append([gs.frames EXCEPT ![Len(gs.frames)] = k], 1)]

\* Cycle with the entry on the stack taken as handled instead of a panic
CycleIgnored(gs, r) == [gs EXCEPT !.handled = gs.handled \cup {r}]

\* Cycle with the sentinel error not wrapped into the panic value
CycleUnwrapped(gs, r) ==
    [gs EXCEPT !.pc = "panic",
               !.err = Panic("", "circular plugin dependency at " \o URI(r))]

\* children panics on the entry r that is on the stack
Cycle(gs, r) ==
    [gs EXCEPT !.pc = "panic",
               !.err = Panic(ErrPluginCircularDependency,
                             "circular plugin dependency at " \o URI(r))]

\* Return with the entry not marked handled
ReturnUnmarked(gs) ==
    LET top == Len(gs.stack)
        reg == gs.stack[top]
        below == SubSeq(gs.frames, 1, top - 1)
    IN  [gs EXCEPT !.ordered = Append(gs.ordered, reg),
                   !.stack = SubSeq(gs.stack, 1, top - 1),
                   !.frames = IF top = 1 THEN <<>>
                              ELSE [below EXCEPT ![top - 1] = below[top - 1] + 1],
                   !.gi = IF top = 1 THEN gs.gi + 1 ELSE gs.gi]

\* children returns; its caller marks the entry handled, appends a copy of
\* it to ordered and moves to its next iteration
Return(gs) ==
    LET top == Len(gs.stack)
        reg == gs.stack[top]
        below == SubSeq(gs.frames, 1, top - 1)
    IN  [gs EXCEPT !.handled = gs.handled \cup {reg},
                   !.ordered = Append(gs.ordered, reg),
                   !.stack = SubSeq(gs.stack, 1, top - 1),
                   !.frames = IF top = 1 THEN <<>>
                              ELSE [below EXCEPT ![top - 1] = below[top - 1] + 1],
                   !.gi = IF top = 1 THEN gs.gi + 1 ELSE gs.gi]

\* Graph returns ordered
Finish(gs) == [gs EXCEPT !.pc = "done"]

\* one step of a running Graph call, from one call or return to the next
GraphStep(gs, registry) ==
    IF gs.stack = <<>>
    THEN IF NextRoot(gs, registry) = 0 THEN Finish(gs)
         ELSE VisitRoot(gs, registry, NextRoot(gs, registry))
    ELSE LET k == NextChild(gs, registry)
             r == registry[RegIndex(k, Len(registry))]
         IN  IF k = 0 THEN Return(gs)
             ELSE IF OnStack(gs.stack, r) THEN Cycle(gs, r)
             ELSE Descend(gs, r, k)

\* what the caller of Graph gets: the order, or the recovered panic
Outcome(gs) ==
    [ok |-> gs.pc = "done",
     order |-> IF gs.pc = "done" THEN gs.ordered ELSE <<>>,
     err |-> gs.err]

RECURSIVE GraphRun(_, _)
\* the Graph call gs run to its end
GraphRun(gs, registry) ==
    IF gs.pc # "run" THEN gs ELSE GraphRun(GraphStep(gs, registry), registry)

\* Graph(filter) on a registry given by its entries
Graph(registry, disabled) ==
    Outcome(GraphRun(GraphInit(<<registry>>, [arr |-> 1, len |-> Len(registry),
                                              cap |-> Len(registry)], disabled),
                     registry))

----------------------------------------------------------------------------
(* The memory of a Graph call *)

\* Graph and children keep the Registrations in two slices that Graph makes,
\* ordered and stack, and every frame of children has its own header of the
\* stack; gs.ordered and gs.stack above are what these slices hold

\* make([]T, 0, n): a new array of n zero values, and the empty slice of it
Make(h, n) ==
    [heap |-> Append(h, [i \in 1..n |-> NilReg]),
     slice |-> [arr |-> Len(h) + 1, len |-> 0, cap |-> n]]

\* no Graph call is running: no slice of one is held
NoMem == [ordered |-> NilSlice, stack |-> NilSlice, frames |-> <<>>]

\* GraphMake with the stack made as registry[:0], on the array of the Registry
GraphMakeOnRegistry(h, s, disabled) ==
    LET handled == InitHandled(View(h, s), disabled)
        ordered == Make(h, s.len - Cardinality(handled))
    IN  [heap |-> ordered.heap,
         mem |-> [ordered |-> ordered.slice,
                  stack |-> [arr |-> s.arr, len |-> 0, cap |-> s.cap],
                  frames |-> <<>>]]

\* the two make calls of Graph: ordered has room for the entries that are
\* not disabled, stack has the capacity of ordered
GraphMake(h, s, disabled) ==
    LET handled == InitHandled(View(h, s), disabled)
        ordered == Make(h, s.len - Cardinality(handled))
        stack == Make(ordered.heap, ordered.slice.cap)
    IN  [heap |-> stack.heap,
         mem |-> [ordered |-> ordered.slice, stack |-> stack.slice,
                  frames |-> <<>>]]

\* the stack parameter of the running frame of children, Graph's own stack
\* when no frame runs
TopStack(m) == IF m.frames = <<>> THEN m.stack ELSE m.frames[Len(m.frames)]

\* the Graph call gs with ordered and stack as the arrays hold them
Loaded(h, m, gs) ==
    [gs EXCEPT !.ordered = View(h, m.ordered),
               !.stack = IF m.frames = <<>> THEN <<>> ELSE View(h, TopStack(m))]

\* one step of a running Graph call with its writes: a call of children
\* passes append(stack, r), a return from it is followed by
\* append(ordered, *r), and both read the stack and ordered from the arrays
GraphStepOnHeap(h, m, gs, registry) ==
    LET cur == Loaded(h, m, gs)
        next == GraphStep(cur, registry)
    IN  IF next.pc # "run"
        THEN [heap |-> h, mem |-> m, g |-> next]
        ELSE IF Len(next.stack) > Len(cur.stack)
        THEN LET res == GoAppend(h, TopStack(m), next.stack[Len(next.stack)])
             IN  [heap |-> res.heap,
                  mem |-> [m EXCEPT !.frames = Append(m.frames, res.slice)],
                  g |-> next]
        ELSE LET res == GoAppend(h, m.ordered, next.ordered[Len(next.ordered)])
             IN  [heap |-> res.heap,
                  mem |-> [m EXCEPT !.ordered = res.slice,
                                    !.frames = SubSeq(m.frames, 1,
                                                      Len(m.frames) - 1)],
                  g |-> next]

RECURSIVE GraphRunOnHeap(_, _, _)
\* the Graph call gs run to its end with its writes; every step reads the
\* Registry from the arrays
GraphRunOnHeap(h, m, gs) ==
    IF gs.pc # "run" THEN [heap |-> h, mem |-> m, g |-> gs]
    ELSE LET next == GraphStepOnHeap(h, m, gs, View(h, gs.registry))
         IN  GraphRunOnHeap(next.heap, next.mem, next.g)

----------------------------------------------------------------------------
(* PluginSet and the lookups of InitContext *)

\* most Plugins the callers of SpecSet add
MaxPlugins == 2

\* the Types and IDs of the Plugins added
PluginTypes == {"t1", "t2"}

PluginIDs == {"a", "b", "c"}

\* what a Plugin holds of its initializer: an instance and an error, either
\* of them set whatever the other is; the error is none, the skip error or
\* one of the initializer's own
Instances == {"x", "y"}

\* stands for what a call returns next to an error: the specification of the
\* lookups gives the error only
NoInstance == "<nil>"

NoError == ""

InitErrors == {ErrSkipPlugin, "other error", "another error"}

\* the Plugins offered to Add, as testPlugin builds them: the instance is set
\* also when the error is
PluginCandidates ==
    [Type : PluginTypes, ID : PluginIDs, instance : Instances,
     err : {NoError} \cup InitErrors]

\* the PluginSet before any Add
NewPluginSet == <<>>

\* what a call on the PluginSet returns: a value and an error
Result(value, err) == [value |-> value, err |-> err]

NoLookup == [op |-> "none", t |-> "", id |-> "", res |-> Result(NoInstance, NoError)]

\* the Plugins of ps with Type t, in the order in which they were added
OfType(ps, t) == SelectSeq(ps, LAMBDA p : p.Type = t)

\* ps has a Plugin under (t, id)
Stored(ps, t, id) == \E i \in 1..Len(ps) : ps[i].Type = t /\ ps[i].ID = id

\* ps.Add(p): p is added after the Plugins of ps, unless a Plugin is stored
\* under its Type and ID, which is never overwritten
Add(ps, p) ==
    IF Stored(ps, p.Type, p.ID)
    THEN [set |-> ps, err |-> ErrPluginInitialized]
    ELSE [set |-> Append(ps, p), err |-> NoError]

\* GetSingle(t): the Plugins of Type t that were not skipped have to be
\* exactly one; its instance is returned, or its error if it failed
GetSingle(ps, t) ==
    LET qualifying == SelectSeq(OfType(ps, t), LAMBDA p : ~IsSkipPlugin(p.err))
    IN  IF Len(qualifying) = 0 THEN Result(NoInstance, ErrPluginNotFound)
        ELSE IF Len(qualifying) > 1
             THEN Result(NoInstance, ErrPluginMultipleInstances)
        ELSE IF qualifying[1].err # NoError
             THEN Result(NoInstance, qualifying[1].err)
        ELSE Result(qualifying[1].instance, NoError)

\* GetByType(t): the first error other than a skip among the Plugins of
\* Type t if there is one; else the map from ID to instance of those that
\* were not skipped, ErrPluginNotFound if that map is empty
GetByType(ps, t) ==
    LET kept == SelectSeq(OfType(ps, t), LAMBDA p : ~IsSkipPlugin(p.err))
        failed == SelectSeq(kept, LAMBDA p : p.err # NoError)
        ids == {kept[i].ID : i \in 1..Len(kept)}
    IN  IF Len(failed) > 0 THEN Result(<<>>, failed[1].err)
        ELSE IF Len(kept) = 0 THEN Result(<<>>, ErrPluginNotFound)
        ELSE Result([id \in ids |->
                        kept[CHOOSE i \in 1..Len(kept) : kept[i].ID = id].instance],
                    NoError)

\* GetByID with a skipped Plugin taken as not stored
GetByIDSkipHidden(ps, t, id) ==
    IF ~Stored(ps, t, id) THEN Result(NoInstance, ErrPluginNotFound)
    ELSE LET p == ps[CHOOSE i \in 1..Len(ps) : ps[i].Type = t /\ ps[i].ID = id]
         IN  IF IsSkipPlugin(p.err) THEN Result(NoInstance, ErrPluginNotFound)
             ELSE IF p.err # NoError THEN Result(NoInstance, p.err)
             ELSE Result(p.instance, NoError)

\* GetByID(t, id): the instance of the Plugin stored under (t, id), or the
\* error of its initializer, the skip error included
GetByID(ps, t, id) ==
    IF ~Stored(ps, t, id) THEN Result(NoInstance, ErrPluginNotFound)
    ELSE LET p == ps[CHOOSE i \in 1..Len(ps) : ps[i].Type = t /\ ps[i].ID = id]
         IN  IF p.err # NoError THEN Result(NoInstance, p.err)
             ELSE Result(p.instance, NoError)

----------------------------------------------------------------------------
(* Actions *)

NoCall == [made |-> FALSE]

\* the newest Registry the callers hold
Latest == held[Len(held)]

\* the entries the running Graph call reads
GraphRegistry == View(heap, g.registry)

\* Register compares Types and IDs only with each other, with "" and with
\* "*", so the callers name them in order of first use: a Type after
\* the Types before it in TypeNames are registered, an ID after the IDs before
\* it in IDNames are registered with that Type
FirstUseOrder(registry, r) ==
    /\ \A k \in 1..Len(TypeNames) :
           r.Type = TypeNames[k] =>
               \A j \in 1..(k - 1) :
                   \E i \in 1..Len(registry) : registry[i].Type = TypeNames[j]
    /\ \A k \in 1..Len(IDNames) :
           r.ID = IDNames[k] /\ r.Type # "" =>
               \A j \in 1..(k - 1) :
                   \E i \in 1..Len(registry) :
                       registry[i].Type = r.Type /\ registry[i].ID = IDNames[j]

\* registry = registry.Register(r), up to MaxRegs entries
RegisterLatest ==
    \E r \in Candidates :
        /\ Latest.len < MaxRegs
        /\ FirstUseOrder(View(heap, Latest), r)
        /\ Register(Len(held), r)
        /\ UNCHANGED call

\* registry.Register(r) with the call observed, on a Registry of at most
\* MaxObserved entries
RegisterObserved ==
    \E r \in Candidates :
        /\ Latest.len <= MaxObserved
        /\ FirstUseOrder(View(heap, Latest), r)
        /\ Register(Len(held), r)
        /\ call' = [made |-> TRUE, recv |-> Len(held), arg |-> r]

\* registry = registry.Register(r) with the call observed, on a Registry of
\* at most MaxAppend entries
RegisterAppend ==
    \E r \in AppendCandidates :
        /\ Latest.len <= MaxAppend
        /\ FirstUseOrder(View(heap, Latest), r)
        /\ Register(Len(held), r)
        /\ call' = [made |-> TRUE, recv |-> Len(held), arg |-> r]

\* any held Registry registers r, while fewer than MaxHeld are held
RegisterAny ==
    \E i \in 1..Len(held), r \in AliasCandidates :
        /\ Len(held) < MaxHeld
        /\ Register(i, r)
        /\ UNCHANGED call

\* the IDs of the Registrations that Register has taken so far
RegisteredIDs == {r.ID : r \in UNION {Range(born[i]) : i \in 1..Len(born)}}

\* one of the newest Registries registers r, while fewer than MaxFork are
\* held; the IDs are taken in the order of ForkIDNames
RegisterFork ==
    \E i \in 1..Len(held), r \in ForkCandidates :
        /\ Len(held) < MaxFork
        /\ i + MaxBack >= Len(held)
        /\ \A k \in 1..Len(ForkIDNames) :
               r.ID = ForkIDNames[k] =>
                   \A j \in 1..(k - 1) : ForkIDNames[j] \in RegisteredIDs
        /\ Register(i, r)
        /\ UNCHANGED call

\* registry = registry.Register(r) with dotted names, up to MaxRegs entries
RegisterDotted ==
    \E r \in DottedCandidates :
        /\ Latest.len < MaxRegs
        /\ Register(Len(held), r)
        /\ UNCHANGED call

\* held[i].Graph(filter) is called: the filter is asked and the slices made
CallGraph(i, disabled) ==
    LET made == GraphMake(heap, held[i], disabled)
    IN  /\ g.pc = "idle"
        /\ g' = GraphInit(heap, held[i], disabled)
        /\ heap' = made.heap
        /\ mem' = made.mem
        /\ panic' = NoPanic
        /\ UNCHANGED <<held, born, call, plugins, lookup>>

\* registry.Graph(filter) is called on the newest Registry
StartGraph ==
    \E disabled \in Filters(View(heap, Latest)) :
        /\ CallGraph(Len(held), disabled)
        /\ UNCHANGED prev

\* the running Graph call as its arrays hold it
Running == Loaded(heap, mem, g)

\* a running Graph call takes a step, with its writes
GraphMove ==
    LET next == GraphStepOnHeap(heap, mem, g, GraphRegistry)
    IN  /\ g.pc = "run"
        /\ heap' = next.heap
        /\ mem' = next.mem
        /\ g' = next.g
        /\ panic' = next.g.err
        /\ UNCHANGED <<held, born, call, prev, plugins, lookup>>

GraphVisit ==
    /\ g.pc = "run" /\ Running.stack = <<>>
    /\ NextRoot(Running, GraphRegistry) # 0
    /\ GraphMove

GraphFinish ==
    /\ g.pc = "run" /\ Running.stack = <<>>
    /\ NextRoot(Running, GraphRegistry) = 0
    /\ GraphMove

ChildrenDescend ==
    /\ g.pc = "run" /\ Running.stack # <<>>
    /\ NextChild(Running, GraphRegistry) # 0
    /\ GraphStep(Running, GraphRegistry).pc = "run"
    /\ GraphMove

ChildrenCycle ==
    /\ g.pc = "run" /\ Running.stack # <<>>
    /\ NextChild(Running, GraphRegistry) # 0
    /\ GraphStep(Running, GraphRegistry).pc = "panic"
    /\ GraphMove

ChildrenReturn ==
    /\ g.pc = "run" /\ Running.stack # <<>>
    /\ NextChild(Running, GraphRegistry) = 0
    /\ GraphMove

GraphRunning ==
    GraphVisit \/ GraphFinish \/ ChildrenDescend \/ ChildrenCycle \/ ChildrenReturn

\* registry.Graph(filter) is called on the newest Registry and runs to its
\* end: it returns an order or it panics, and leaves its arrays
GraphAtOnce ==
    \E disabled \in Filters(View(heap, Latest)) :
        LET made == GraphMake(heap, Latest, disabled)
            end == GraphRunOnHeap(made.heap, made.mem,
                                  GraphInit(heap, Latest, disabled))
        IN  /\ g.pc = "idle"
            /\ heap' = end.heap
            /\ mem' = end.mem
            /\ g' = end.g
            /\ panic' = end.g.err
            /\ UNCHANGED <<held, born, call, prev, plugins, lookup>>

\* registry = registry.Register(r) between Graph calls, up to MaxTwice entries
RegisterTwice ==
    \E r \in TwiceCandidates :
        /\ Latest.len < MaxTwice
        /\ FirstUseOrder(View(heap, Latest), r)
        /\ Register(Len(held), r)
        /\ UNCHANGED call

\* Graph is called on one of the Registries held
GraphFirst ==
    \E i \in 1..Len(held) : \E disabled \in Filters(View(heap, held[i])) :
        /\ prev = NoCall
        /\ CallGraph(i, disabled)
        /\ prev' = [made |-> FALSE, recv |-> i]

\* the first Graph call has returned or panicked: its caller keeps what it
\* got, and nothing of the call is left but its arrays
GraphReturn ==
    /\ g.pc \in {"done", "panic"}
    /\ ~prev.made
    /\ prev' = [made |-> TRUE, recv |-> prev.recv, holds |-> Len(held),
                registry |-> GraphRegistry, disabled |-> g.disabled,
                outcome |-> Outcome(g)]
    /\ g' = Idle
    /\ mem' = NoMem
    /\ UNCHANGED <<heap, held, born, call, panic, plugins, lookup>>

\* Graph is called again on the same Registry with the same filter
GraphSecond ==
    /\ prev.made
    /\ CallGraph(prev.recv, prev.disabled)
    /\ UNCHANGED prev

\* what the Registry side of the state keeps during a call on the PluginSet
RegistryUnchanged == UNCHANGED <<heap, held, born, call, panic, g, mem, prev>>

\* plugins.Add(p), while fewer than MaxPlugins are stored
CallAdd ==
    \E p \in PluginCandidates :
        /\ Len(plugins) < MaxPlugins
        /\ plugins' = Add(plugins, p).set
        /\ lookup' = [op |-> "Add", t |-> p.Type, id |-> p.ID,
                      res |-> Result(NoInstance, Add(plugins, p).err)]
        /\ RegistryUnchanged

\* ic.GetSingle(t)
CallGetSingle ==
    \E t \in PluginTypes :
        /\ lookup' = [op |-> "GetSingle", t |-> t, id |-> "",
                      res |-> GetSingle(plugins, t)]
        /\ UNCHANGED plugins
        /\ RegistryUnchanged

\* ic.GetByType(t)
CallGetByType ==
    \E t \in PluginTypes :
        /\ lookup' = [op |-> "GetByType", t |-> t, id |-> "",
                      res |-> GetByType(plugins, t)]
        /\ UNCHANGED plugins
        /\ RegistryUnchanged

\* ic.GetByID(t, id)
CallGetByID ==
    \E t \in PluginTypes, id \in PluginIDs :
        /\ lookup' = [op |-> "GetByID", t |-> t, id |-> id,
                      res |-> GetByID(plugins, t, id)]
        /\ UNCHANGED plugins
        /\ RegistryUnchanged

----------------------------------------------------------------------------
(* Specifications *)

Init ==
    /\ heap = <<>>
    /\ held = <<NilSlice>>
    /\ born = <<<<>>>>
    /\ call = NoCall
    /\ panic = NoPanic
    /\ g = Idle
    /\ mem = NoMem
    /\ prev = NoCall
    /\ plugins = NewPluginSet
    /\ lookup = NoLookup

\* a Registry is built by Register, then resolved by Graph
Next == RegisterLatest \/ StartGraph \/ GraphRunning

Spec == Init /\ [][Next]_vars

\* Register calls observed one by one
NextReg == RegisterObserved

SpecReg == Init /\ [][NextReg]_vars

\* a Registry grown by Register calls observed one by one
NextAppend == RegisterAppend

SpecAppend == Init /\ [][NextAppend]_vars

\* Register called on any Registry value held, old ones included
NextAlias == RegisterAny

SpecAlias == Init /\ [][NextAlias]_vars

\* Register called on a Registry value that already has a successor
NextFork == RegisterFork

SpecFork == Init /\ [][NextFork]_vars

\* a Registry built from Registrations with dotted names
NextURI == RegisterDotted

SpecURI == Init /\ [][NextURI]_vars

\* a Registry is built by Register, then resolved by one Graph call
NextOnce == RegisterLatest \/ GraphAtOnce

SpecOnce == Init /\ [][NextOnce]_vars

\* a Registry is built by Register and resolved by Graph, it is built further
\* and resolved again
NextTwice ==
    RegisterTwice \/ GraphFirst \/ GraphRunning \/ GraphReturn \/ GraphSecond

SpecTwice == Init /\ [][NextTwice]_vars

\* Plugins are added to a PluginSet and looked up in it
NextSet == CallAdd \/ CallGetSingle \/ CallGetByType \/ CallGetByID

SpecSet == Init /\ [][NextSet]_vars

----------------------------------------------------------------------------
(* Vocabulary of the properties *)

\* Graph has returned an order
Returned == g.pc = "done"

\* Graph has panicked
Failed == g.pc = "panic"

\* the Registrations of the resolved Registry that the filter lets through
NonDisabled == {r \in Range(GraphRegistry) : r \notin g.disabled}

\* s has a place in seq before the first place of r
Before(seq, s, r) ==
    \E i, j \in 1..Len(seq) : i < j /\ seq[i] = s /\ seq[j] = r

\* s was registered before r
RegisteredBefore(s, r) == Before(GraphRegistry, s, r)

Occurrences(seq, r) == Cardinality({i \in 1..Len(seq) : seq[i] = r})

\* r names the Type of s in its Requires
RequiresTypeOf(r, s) ==
    s # r /\ \E i \in 1..Len(r.Requires) : r.Requires[i] = s.Type

\* s is a direct requirement of r: through its Type or through the wildcard
RequiresDirectly(r, s) ==
    s # r /\ \E i \in 1..Len(r.Requires) : r.Requires[i] \in {s.Type, Wildcard}

Compose(rel) ==
    rel \cup {<<e[1][1], e[2][2]>> : e \in {x \in rel \X rel : x[1][2] = x[2][1]}}

RECURSIVE TransitiveClosure(_)
TransitiveClosure(rel) ==
    IF Compose(rel) = rel THEN rel ELSE TransitiveClosure(Compose(rel))

\* the pairs <<r, s>> of non-disabled Registrations with s a requirement of r
Edges == {e \in NonDisabled \X NonDisabled : RequiresDirectly(e[1], e[2])}

\* s is a direct or transitive requirement of r
Needs(r, s) == <<r, s>> \in TransitiveClosure(Edges)

RECURSIVE TypeCore(_)
\* what is left of nodes when the Registrations that require the Type of none
\* of the others are taken out, again and again: empty unless there is a cycle
TypeCore(nodes) ==
    LET free == {r \in nodes : \A s \in nodes : ~RequiresTypeOf(r, s)}
    IN  IF free = {} THEN nodes ELSE TypeCore(nodes \ free)

\* some non-disabled Registrations form a cycle of Type requirements
TypeCycle == TypeCore(NonDisabled) # {}

\* the Registry with the disabled Registrations taken out
KeepEnabled(r) == r \notin g.disabled

FilteredRegistry == SelectSeq(GraphRegistry, KeepEnabled)

----------------------------------------------------------------------------
(* C1 *)

\* C1: topological order. Whenever Graph returns an order, for every
\* non-disabled Registration r and every non-wildcard Type in r.Requires,
\* every other non-disabled Registration of that Type is in the order before r.
C1_TopologicalOrder ==
    Returned =>
        \A r \in NonDisabled, s \in NonDisabled :
            (RequiresTypeOf(r, s) /\ s.Type # Wildcard) => Before(g.ordered, s, r)

\* an order was returned in which a Registration follows a requirement of
\* its own that was registered after it
C1_Witness ==
    /\ Returned
    /\ \E r \in NonDisabled, s \in NonDisabled :
           RequiresTypeOf(r, s) /\ RegisteredBefore(r, s) /\ Before(g.ordered, s, r)

----------------------------------------------------------------------------
(* C2 *)

\* C2: wildcard order. Whenever Graph returns an order, every non-disabled
\* Registration whose Requires is <<"*">> is preceded in it by every other
\* non-disabled Registration, those of its own Type and those registered
\* after it included.
C2_WildcardOrder ==
    Returned =>
        \A r \in NonDisabled :
            r.Requires = <<Wildcard>> =>
                \A s \in NonDisabled \ {r} : Before(g.ordered, s, r)

\* an order was returned that ends with a wildcard Registration which was
\* registered before another Registration of its own Type
C2_Witness ==
    /\ Returned
    /\ \E r \in NonDisabled, s \in NonDisabled :
           /\ r.Requires = <<Wildcard>>
           /\ s.Type = r.Type
           /\ RegisteredBefore(r, s)
           /\ Before(g.ordered, s, r)

----------------------------------------------------------------------------
(* C3 *)

\* C3: cycle detection. When non-disabled Registrations form a cycle of Type
\* requirements, Graph returns no order, and a Graph call that is running,
\* run on to its end, ends in a panic with ErrPluginCircularDependency.
C3_CycleDetection ==
    TypeCycle =>
        /\ ~Returned
        /\ Failed => panic.err = ErrPluginCircularDependency
        /\ g.pc = "run" =>
               LET end == GraphRun(g, GraphRegistry)
               IN  end.pc = "panic" /\ end.err.err = ErrPluginCircularDependency

\* Graph panicked on a cycle that runs through three Registrations, no two
\* of which require each other
C3_Witness ==
    /\ Failed
    /\ panic.err = ErrPluginCircularDependency
    /\ TypeCycle
    /\ \A r \in NonDisabled, s \in NonDisabled :
           ~(RequiresTypeOf(r, s) /\ RequiresTypeOf(s, r))

----------------------------------------------------------------------------
(* C4 *)

\* C4: no duplication, no loss. Whenever Graph returns an order, every
\* non-disabled Registration of the Registry is in it exactly once and no
\* disabled Registration is in it; nothing else is in it.
C4_ExactlyOnce ==
    Returned =>
        /\ \A r \in Range(GraphRegistry) :
               Occurrences(g.ordered, r) = IF r \in g.disabled THEN 0 ELSE 1
        /\ Range(g.ordered) \subseteq Range(GraphRegistry)

\* an order was returned for a Registry in which one Registration is required
\* by two others, so it is reached as a dependency and again by the loops
C4_Witness ==
    /\ Returned
    /\ \E s \in NonDisabled, r1 \in NonDisabled, r2 \in NonDisabled :
           r1 # r2 /\ RequiresDirectly(r1, s) /\ RequiresDirectly(r2, s)

----------------------------------------------------------------------------
(* C5 *)

\* C5: filter semantics. When a Graph call has ended, no disabled Registration
\* is in its order, and its outcome (the order, or the panic) is the outcome
\* of Graph with no filter on the Registry without the disabled Registrations.
C5_FilterSemantics ==
    (Returned \/ Failed) =>
        /\ \A i \in 1..Len(g.ordered) : g.ordered[i] \notin g.disabled
        /\ Outcome(g) = Graph(FilteredRegistry, {})

\* a Graph call ended for a Registry in which a non-disabled Registration
\* requires a Type that only a disabled Registration has
C5_Witness ==
    /\ Returned
    /\ \E r \in NonDisabled, d \in g.disabled :
           /\ RequiresTypeOf(r, d)
           /\ \A s \in NonDisabled : s.Type # d.Type

----------------------------------------------------------------------------
(* C6 *)

\* the DFS path holds no Registration twice
PathHasNoRepeat ==
    \A i, j \in 1..Len(g.stack) : g.stack[i] = g.stack[j] => i = j

\* the Registrations that children was not yet called for
NotEntered == Range(GraphRegistry) \ (g.handled \cup Range(g.stack))

\* a bound on the calls and returns a Graph call still has to make: a call
\* and a return for each Registration not entered, a return for each one on
\* the path, and the end of Graph itself
StepsLeft ==
    2 * Cardinality(NotEntered) + Len(g.stack) + (IF g.pc = "run" THEN 1 ELSE 0)

\* C6: termination. A running Graph call always has a next step, and each of
\* its steps lowers the number StepsLeft, so it ends: it returns an order or
\* it panics, and then with ErrPluginCircularDependency; while it runs, the
\* DFS path never holds the same Registration twice.
C6_Termination ==
    /\ [](PathHasNoRepeat)
    /\ [](Failed => panic.err = ErrPluginCircularDependency)
    /\ [](g.pc = "run" => GraphStep(g, GraphRegistry) # g)
    /\ [][g.pc = "run" => (g'.pc \in {"run", "done", "panic"}
                              /\ StepsLeft' < StepsLeft)]_vars

\* the traversal is three Registrations deep
C6_Witness == g.pc = "run" /\ Len(g.stack) = 3

----------------------------------------------------------------------------
(* C7 *)

\* C7: Registry immutability. Every Registry value that Register returned
\* still holds the entries it held when it was returned, whatever Register
\* calls were made since on it or on any other Registry.
C7_RegistryImmutable ==
    \A i \in 1..Len(held) : View(heap, held[i]) = born[i]

----------------------------------------------------------------------------
(* C8 *)

\* neither is a direct or transitive requirement of the other
Unrelated(r, s) == ~Needs(r, s) /\ ~Needs(s, r)

\* C8 as claimed: stability. Whenever Graph returns an order, two
\* non-disabled Registrations with no dependency relationship to each other
\* are in it in the order in which they were registered.
C8_Stability ==
    Returned =>
        \A r \in NonDisabled, s \in NonDisabled :
            (RegisteredBefore(r, s) /\ Unrelated(r, s)) => Before(g.ordered, r, s)

\* s is a direct or transitive requirement of a non-disabled Registration
\* that was registered before r
PulledAheadOf(r, s) ==
    \E q \in NonDisabled : RegisteredBefore(q, r) /\ Needs(q, s)

\* C8 amended: whenever Graph returns an order, two non-disabled Registrations
\* with no dependency relationship to each other are in it in the order in
\* which they were registered, unless the later one is a direct or transitive
\* requirement of a non-disabled Registration registered before the earlier.
C8_StabilityUnlessPulled ==
    Returned =>
        \A r \in NonDisabled, s \in NonDisabled :
            (RegisteredBefore(r, s) /\ Unrelated(r, s) /\ ~PulledAheadOf(r, s))
                => Before(g.ordered, r, s)

\* an order was returned in which a requirement was moved ahead of the
\* Registration that needs it, while two unrelated Registrations that nothing
\* earlier needs kept their places
C8_Witness ==
    /\ Returned
    /\ \E r \in NonDisabled, s \in NonDisabled :
           /\ RegisteredBefore(r, s) /\ Unrelated(r, s) /\ ~PulledAheadOf(r, s)
           /\ Before(g.ordered, r, s)
    /\ \E r \in NonDisabled, s \in NonDisabled :
           RegisteredBefore(r, s) /\ Before(g.ordered, s, r)

----------------------------------------------------------------------------
(* C9 *)

\* the Graph call that is running or has ended is the second one
Second == prev.made /\ g.pc # "idle"

\* C9: determinism and purity. Whatever Graph and children write, every
\* Registry holds the entries in the order it held them when Register
\* returned it; and a second call of Graph on the same Registry with the same
\* filter, made after the first has ended and after any further Register
\* calls, ends as the first did: with the same panic, or with the same
\* Registrations in the same order.
C9_Deterministic ==
    /\ \A i \in 1..Len(held) : View(heap, held[i]) = born[i]
    /\ Second =>
           /\ g.registry = held[prev.recv]
           /\ GraphRegistry = prev.registry
           /\ g.disabled = prev.disabled
    /\ (Second /\ g.pc # "run") => Outcome(g) = prev.outcome

\* Graph has twice put three Registrations, one of them disabled, into an
\* order that is not the order of registration; between the two calls
\* Register has written a fourth Registration into the array of the Registry
C9_Witness ==
    /\ Second
    /\ Returned
    /\ Len(GraphRegistry) = 3
    /\ g.disabled # {}
    /\ Len(g.ordered) = 2
    /\ ~Before(GraphRegistry, g.ordered[1], g.ordered[2])
    /\ prev.holds = prev.recv
    /\ Len(held) = prev.recv + 1
    /\ Latest.arr = g.registry.arr

----------------------------------------------------------------------------
(* C10 *)

\* the Requires of r holds the wildcard together with another entry, or
\* holds r's own Type
BadRequires(r) ==
    \/ Wildcard \in Range(r.Requires) /\ Len(r.Requires) # 1
    \/ r.Type \in Range(r.Requires)

\* the Registry on which the observed Register call was made
Receiver == View(heap, held[call.recv])

\* the Type and ID of r are not empty and the Registry has no entry with both
Registrable(registry, r) ==
    /\ r.Type # "" /\ r.ID # ""
    /\ \A i \in 1..Len(registry) :
           ~(registry[i].Type = r.Type /\ registry[i].ID = r.ID)

\* C10: invalid requires. A Register call whose argument has a bad Requires
\* panics, and with ErrInvalidRequires when the argument's Type and ID are
\* not empty and not registered yet; so every entry of every Registry has a
\* Requires that is <<"*">> or holds no "*", and that does not hold its Type.
C10_InvalidRequires ==
    /\ (call.made /\ BadRequires(call.arg)) =>
           /\ panic # NoPanic
           /\ Registrable(Receiver, call.arg) => panic.err = ErrInvalidRequires
    /\ \A i \in 1..Len(held) : \A r \in Range(View(heap, held[i])) :
           /\ r.Requires = <<Wildcard>> \/ Wildcard \notin Range(r.Requires)
           /\ r.Type \notin Range(r.Requires)

\* Register refused, with ErrInvalidRequires, a Registration that a Registry
\* with an entry could otherwise take and whose Requires ends with "*"
C10_Witness ==
    /\ call.made
    /\ Len(Receiver) = 1
    /\ Registrable(Receiver, call.arg)
    /\ Len(call.arg.Requires) = 2
    /\ call.arg.Requires[1] # Wildcard
    /\ call.arg.Requires[2] = Wildcard
    /\ panic.err = ErrInvalidRequires

----------------------------------------------------------------------------
(* C11 *)

\* some entry of registry has the Type and the ID of r
Holds(registry, r) ==
    \E i \in 1..Len(registry) :
        registry[i].Type = r.Type /\ registry[i].ID = r.ID

\* no two entries of registry have the same Type and the same ID
PairsUnique(registry) ==
    \A i, j \in 1..Len(registry) :
        (registry[i].Type = registry[j].Type /\ registry[i].ID = registry[j].ID)
            => i = j

\* C11: duplicate rejection. A Register call whose argument has a non-empty
\* Type and ID that an entry of the receiver has as well panics with
\* ErrIDRegistered, and no Registry value that Register returned holds two
\* entries with the same Type and the same ID.
C11_NoDuplicates ==
    /\ (call.made /\ call.arg.Type # "" /\ call.arg.ID # ""
            /\ Holds(Receiver, call.arg)) => panic.err = ErrIDRegistered
    /\ \A i \in 1..Len(held) : PairsUnique(View(heap, held[i]))

----------------------------------------------------------------------------
(* C12 *)

\* no two entries of registry have the same URI
URIsUnique(registry) ==
    \A i, j \in 1..Len(registry) :
        URI(registry[i]) = URI(registry[j]) => i = j

\* C12: URI uniqueness. In every Registry built by a sequence of Register
\* calls from the empty Registry, no two entries have the same URI, the
\* string Type + "." + ID.
C12_URIUnique ==
    \A i \in 1..Len(held) : URIsUnique(View(heap, held[i]))

----------------------------------------------------------------------------
(* C13 *)

\* C13: empty identity. A Register call whose argument has an empty Type
\* panics with ErrNoType, and one whose argument has a Type and an empty ID
\* panics with ErrNoPluginID, whatever the receiver holds and whatever the
\* argument requires; so every entry of every Registry has a Type and an ID.
C13_EmptyIdentity ==
    /\ (call.made /\ call.arg.Type = "") => panic = Panic(ErrNoType, "")
    /\ (call.made /\ call.arg.Type # "" /\ call.arg.ID = "")
           => panic = Panic(ErrNoPluginID, "")
    /\ \A i \in 1..Len(held) : \A r \in Range(View(heap, held[i])) :
           r.Type # "" /\ r.ID # ""

\* Register refused, with ErrNoType, a Registration without Type and ID whose
\* Requires is bad as well, on a Registry that has an entry
C13_Witness ==
    /\ call.made
    /\ Len(Receiver) = 1
    /\ call.arg.Type = "" /\ call.arg.ID = ""
    /\ BadRequires(call.arg)
    /\ panic.err = ErrNoType

----------------------------------------------------------------------------
(* C14 *)

\* C14: append on success. When a Register call returns, the Registry it
\* returns holds the entries of the receiver in their order and then the
\* argument as its last entry, and the receiver holds what it held; a
\* Register call that panics leaves every Registry and every array as it was.
C14_AppendOnSuccess ==
    /\ []((call.made /\ panic = NoPanic) =>
              /\ call.recv = Len(held) - 1
              /\ View(heap, Latest) = Append(born[call.recv], call.arg)
              /\ Receiver = born[call.recv])
    /\ [][panic' # NoPanic => (heap' = heap /\ held' = held)]_vars

\* Register accepted a Registration on a Registry of three entries, the
\* first of one Type, the others of another Type and with different Requires,
\* and append wrote it into the receiver's array
C14_Witness ==
    /\ call.made
    /\ panic = NoPanic
    /\ Len(Receiver) = 3
    /\ Receiver[1].Type # Receiver[2].Type
    /\ Receiver[2].Type = Receiver[3].Type
    /\ Receiver[2].Requires # Receiver[3].Requires
    /\ Latest.arr = held[call.recv].arr
    /\ Len(View(heap, Latest)) = 4

----------------------------------------------------------------------------
(* C15 *)

\* the stored Plugins of Type t
StoredOfType(t) == {p \in Range(plugins) : p.Type = t}

Succeeded(p) == p.err = NoError

Skipped(p) == p.err = ErrSkipPlugin

\* the initializer of p returned an error that is not the skip error
FailedInit(p) == ~Succeeded(p) /\ ~Skipped(p)

\* C15: GetSingle(t). It returns the instance when exactly one stored Plugin
\* of Type t was not skipped and that one succeeded, fails with
\* ErrPluginNotFound when none is stored or all were skipped, fails with
\* ErrPluginMultipleInstances when more than one succeeded, and fails with the
\* initializer's error when the only one not skipped failed.
C15_GetSingle ==
    lookup.op = "GetSingle" =>
        LET live == {p \in StoredOfType(lookup.t) : ~Skipped(p)}
            good == {p \in StoredOfType(lookup.t) : Succeeded(p)}
        IN  /\ \A p \in live :
                   (live = {p} /\ Succeeded(p))
                       => lookup.res = Result(p.instance, NoError)
            /\ live = {} => lookup.res.err = ErrPluginNotFound
            /\ Cardinality(good) > 1
                   => lookup.res.err = ErrPluginMultipleInstances
            /\ \A p \in live :
                   (live = {p} /\ FailedInit(p)) => lookup.res.err = p.err

\* GetSingle returned the instance of the one Plugin of its Type that
\* succeeded, another Plugin of the Type being stored but skipped
C15_Witness ==
    /\ lookup.op = "GetSingle"
    /\ \E p \in StoredOfType(lookup.t), q \in StoredOfType(lookup.t) :
           /\ Succeeded(p) /\ Skipped(q)
           /\ lookup.res = Result(p.instance, NoError)

----------------------------------------------------------------------------
(* C16 *)

\* C16: GetByType(t). If a stored Plugin of Type t failed with an error other
\* than the skip error, it fails with such an error, whatever Plugins of the
\* Type succeeded; otherwise it returns the map from ID to instance of
\* exactly the stored Plugins of Type t that were not skipped, and fails with
\* ErrPluginNotFound when there is none.
C16_GetByType ==
    lookup.op = "GetByType" =>
        LET live == {p \in StoredOfType(lookup.t) : ~Skipped(p)}
            bad == {p \in StoredOfType(lookup.t) : FailedInit(p)}
        IN  /\ bad # {} => lookup.res.err \in {p.err : p \in bad}
            /\ (bad = {} /\ live # {}) =>
                   /\ lookup.res.err = NoError
                   /\ DOMAIN lookup.res.value = {p.ID : p \in live}
                   /\ \A p \in live : lookup.res.value[p.ID] = p.instance
            /\ (bad = {} /\ live = {}) => lookup.res.err = ErrPluginNotFound

\* GetByType failed with the error of a Plugin of its Type, another Plugin
\* of the Type having succeeded
C16_Witness ==
    /\ lookup.op = "GetByType"
    /\ \E p \in StoredOfType(lookup.t), q \in StoredOfType(lookup.t) :
           /\ Succeeded(p) /\ FailedInit(q)
           /\ lookup.res.err = q.err

----------------------------------------------------------------------------
(* C17 *)

\* C17: GetByID(t, id). It returns the instance of the Plugin stored under
\* (t, id) when that Plugin succeeded, fails with ErrPluginNotFound when none
\* is stored under (t, id), and fails with the error of the Plugin's
\* initializer, the skip error included, when it returned one.
C17_GetByID ==
    lookup.op = "GetByID" =>
        LET found == {p \in StoredOfType(lookup.t) : p.ID = lookup.id}
        IN  /\ found = {} => lookup.res.err = ErrPluginNotFound
            /\ \A p \in found :
                   /\ Succeeded(p) => lookup.res = Result(p.instance, NoError)
                   /\ ~Succeeded(p) => lookup.res.err = p.err

\* GetByID failed with the skip error of the Plugin asked for, another Plugin
\* of its Type having succeeded
C17_Witness ==
    /\ lookup.op = "GetByID"
    /\ lookup.res.err = ErrSkipPlugin
    /\ \E p \in StoredOfType(lookup.t), q \in StoredOfType(lookup.t) :
           Succeeded(p) /\ Skipped(q) /\ q.ID = lookup.id

----------------------------------------------------------------------------
(* C18 *)

\* the places of registry at which a Type other than w's is met first
FirstPlaces(registry, w) ==
    {i \in 1..Len(registry) :
        /\ registry[i].Type # w.Type
        /\ \A j \in 1..(i - 1) : registry[j].Type # registry[i].Type}

\* every Type present in registry except w's own, in the order of registration
ExplicitRequires(registry, w) ==
    LET firsts == FirstPlaces(registry, w)
    IN  [k \in 1..Cardinality(firsts) |->
            registry[CHOOSE i \in firsts :
                         Cardinality({j \in firsts : j < i}) = k - 1].Type]

\* w with its wildcard replaced by the explicit list
Explicit(registry, w) == [w EXCEPT !.Requires = ExplicitRequires(registry, w)]

\* seq with w2 in the places of w
Replaced(seq, w, w2) == [i \in 1..Len(seq) |-> IF seq[i] = w THEN w2 ELSE seq[i]]

\* the outcome of the Graph call is the outcome of the same call with the
\* wildcard of w replaced by the explicit list
SameWithExplicit(w) ==
    LET w2 == Explicit(GraphRegistry, w)
        disabled == {IF r = w THEN w2 ELSE r : r \in g.disabled}
        swapped == Graph(Replaced(GraphRegistry, w, w2), disabled)
    IN  /\ swapped.ok = Outcome(g).ok
        /\ swapped.err = Outcome(g).err
        /\ swapped.order = Replaced(Outcome(g).order, w, w2)

\* C18 as claimed: wildcard equivalence. For every Registry and filter,
\* replacing the Requires <<"*">> of a Registration by the list of every Type
\* present in the Registry except its own gives the same outcome of Graph.
C18_WildcardEquivalence ==
    (Returned \/ Failed) =>
        \A w \in Range(GraphRegistry) :
            w.Requires = <<Wildcard>> => SameWithExplicit(w)

\* no other Registration of the Registry has the Type of w
AloneInType(w) == \A r \in Range(GraphRegistry) \ {w} : r.Type # w.Type

\* the Registrations other than w that have one Type were registered one
\* after the other, none of another Type between them
GroupedByType(w) ==
    LET others == SelectSeq(GraphRegistry, LAMBDA r : r # w)
    IN  \A i, j, k \in 1..Len(others) :
            (i < j /\ j < k /\ others[i].Type = others[k].Type)
                => others[j].Type = others[i].Type

\* C18 amended: replacing the Requires <<"*">> of a Registration by the list
\* of every Type present in the Registry except its own, in the order of
\* registration, gives the same outcome of Graph when no other Registration
\* of the Registry has its Type and the other Registrations of each Type
\* were registered one after the other.
C18_WildcardEquivalenceAlone ==
    (Returned \/ Failed) =>
        \A w \in Range(GraphRegistry) :
            (w.Requires = <<Wildcard>> /\ AloneInType(w) /\ GroupedByType(w))
                => SameWithExplicit(w)

\* Graph returned an order that ends with a non-disabled wildcard
\* Registration which was registered before two Registrations of two other
\* Types, and the explicit list of these Types gives the same order
C18_Witness ==
    /\ Returned
    /\ \E w \in NonDisabled :
           /\ w.Requires = <<Wildcard>>
           /\ AloneInType(w) /\ GroupedByType(w)
           /\ Len(ExplicitRequires(GraphRegistry, w)) = 2
           /\ Cardinality({s \in NonDisabled : RegisteredBefore(w, s)}) = 2
           /\ SameWithExplicit(w)

----------------------------------------------------------------------------
(* C19 *)

\* C19: tie-break among providers. Whenever Graph returns an order, the
\* non-disabled Registrations of a Type that a non-disabled Registration
\* names in its Requires are in it in the order in which they were registered.
C19_ProviderOrder ==
    Returned =>
        \A r \in NonDisabled, p \in NonDisabled, q \in NonDisabled :
            (RequiresTypeOf(r, p) /\ q.Type = p.Type /\ RegisteredBefore(p, q))
                => Before(g.ordered, p, q)

\* an order was returned in which two Registrations of one Type come, in
\* the order of their registration, before a Registration that requires the
\* Type and was registered before both
C19_Witness ==
    /\ Returned
    /\ \E r \in NonDisabled, p \in NonDisabled, q \in NonDisabled :
           /\ RequiresTypeOf(r, p) /\ q.Type = p.Type
           /\ RegisteredBefore(r, p) /\ RegisteredBefore(p, q)
           /\ Before(g.ordered, p, q) /\ Before(g.ordered, q, r)

----------------------------------------------------------------------------
(* C20 *)

RECURSIVE DirectCore(_)
\* what is left of nodes when the Registrations that have no direct
\* requirement among the others are taken out, again and again: empty
\* exactly when the requirement relation on nodes has no cycle
DirectCore(nodes) ==
    LET free == {r \in nodes : \A s \in nodes : ~RequiresDirectly(r, s)}
    IN  IF free = {} THEN nodes ELSE DirectCore(nodes \ free)

\* the requirement relation, through Types and through the wildcard, has no
\* cycle among the non-disabled Registrations
Acyclic == DirectCore(NonDisabled) = {}

\* the DFS path is a chain of direct requirements among non-disabled
\* Registrations, and its last entry requires an entry of the path
PathClosesCycle ==
    /\ Range(g.stack) \subseteq NonDisabled
    /\ \A i \in 1..(Len(g.stack) - 1) : RequiresDirectly(g.stack[i], g.stack[i + 1])
    /\ \E i \in 1..(Len(g.stack) - 1) :
           RequiresDirectly(g.stack[Len(g.stack)], g.stack[i])

\* C20: no false cycle. When a Graph call has ended and the requirement
\* relation among the non-disabled Registrations has no cycle, Graph has
\* returned an order and has not panicked, whatever requirements match no
\* non-disabled Registration; and when Graph has panicked, the path it
\* panicked on closes a cycle of that relation.
C20_NoFalseCycle ==
    /\ ((Returned \/ Failed) /\ Acyclic) => (Returned /\ panic = NoPanic)
    /\ Failed => PathClosesCycle

\* Graph returned an order for a Registry in which a non-disabled
\* Registration has a requirement that a non-disabled Registration matches
\* and one that only a disabled Registration matches
C20_Witness ==
    /\ Returned
    /\ \E r \in NonDisabled, s \in NonDisabled, d \in g.disabled :
           /\ RequiresTypeOf(r, s)
           /\ RequiresTypeOf(r, d)
           /\ \A q \in NonDisabled : q.Type # d.Type

----------------------------------------------------------------------------
(* C21 *)

RequiresWildcard(r) == Wildcard \in Range(r.Requires)

\* another non-disabled Registration requires the wildcard as well, or names
\* the Type of w in its Requires
InConflict(w) ==
    \E v \in NonDisabled \ {w} :
        RequiresWildcard(v) \/ w.Type \in Range(v.Requires)

\* C21: wildcard conflict. When a Graph call has ended on a Registry in which
\* a non-disabled Registration requires the wildcard and another non-disabled
\* Registration requires the wildcard too or requires its Type, Graph has
\* panicked with ErrPluginCircularDependency, wherever the two were registered.
C21_WildcardConflict ==
    ((Returned \/ Failed)
        /\ \E w \in NonDisabled : RequiresWildcard(w) /\ InConflict(w))
        => (Failed /\ panic.err = ErrPluginCircularDependency)

\* Graph panicked on a Registry whose last entry requires the wildcard, an
\* entry before it requires the Type of the last, and no other entry requires
\* the wildcard
C21_Witness ==
    /\ Failed
    /\ panic.err = ErrPluginCircularDependency
    /\ \E w \in NonDisabled, v \in NonDisabled :
           /\ w = GraphRegistry[Len(GraphRegistry)]
           /\ RequiresWildcard(w)
           /\ v # w /\ w.Type \in Range(v.Requires)
           /\ \A q \in NonDisabled \ {w} : ~RequiresWildcard(q)

----------------------------------------------------------------------------
(* C22 *)

\* s is a direct or transitive requirement of r itself or of a non-disabled
\* Registration that was registered before r
NeededUpTo(r, s) ==
    \E q \in NonDisabled : (q = r \/ RegisteredBefore(q, r)) /\ Needs(q, s)

\* C22: bounded reordering. Whenever Graph returns an order, a non-disabled
\* Registration s that was registered after a non-disabled Registration r is
\* in the order before r only if s is a direct or transitive requirement of
\* r or of a non-disabled Registration registered before r.
C22_BoundedReordering ==
    Returned =>
        \A r \in NonDisabled, s \in NonDisabled :
            (RegisteredBefore(r, s) /\ Before(g.ordered, s, r)) => NeededUpTo(r, s)

\* an order was returned in which a Registration comes before one that was
\* registered earlier and does not need it, being a requirement of a
\* Registration registered earlier still
C22_Witness ==
    /\ Returned
    /\ \E r \in NonDisabled, s \in NonDisabled :
           /\ RegisteredBefore(r, s) /\ Before(g.ordered, s, r)
           /\ ~Needs(r, s)
           /\ \E q \in NonDisabled : RegisteredBefore(q, r) /\ Needs(q, s)

============================================================================
